---- MODULE Spec2Model ----
(***************************************************************************)
(* The OpenAPI wrapper around actix_web::App of the paperclip actix-web    *)
(* plugin (src/plugins/actix-web/src/lib.rs): the shared Document          *)
(* (DefaultApiRaw behind Arc<RwLock<..>>), the optional v3 cache, the      *)
(* inner application, and the builder operations that mount contributors,  *)
(* trim the base path, register the JSON endpoints, hand out raw           *)
(* snapshots and build the application.                                    *)
(*                                                                         *)
(* Spec is the chain of builder calls of one owner; SpecProxies is the     *)
(* chain with the proxies of actix_web::App, configure and route as well;  *)
(* SpecLocks takes the mount, trim_base_path, build and the handlers one   *)
(* lock operation or statement at a time, for threads that share the       *)
(* Document and the cache.                                                 *)
(*                                                                         *)
(* A String is a sequence of characters.  The alphabet has two characters: *)
(* "a" and "u" ("a" < "u" in byte order), so that <<"a">> plays the part   *)
(* of a base path such as "/api" and <<"a","u">> of "/api/users".          *)
(* An Option<T> is a sequence of length 0 (None) or 1 (Some).              *)
(* A BTreeMap is a function with a finite domain.                          *)
(***************************************************************************)
EXTENDS Naturals, Sequences, FiniteSets, TLC

VARIABLES
    spec,       \* App.spec: the Document shared by the wrapper and the handlers
    spec_v3,    \* App.spec_v3: Option of the cached translated document
    inner,      \* App.inner: Option of the wrapped actix_web::App (its services)
    normalize,  \* cfg!(feature = "normalize") of this build
    app,        \* Option of the actix_web::App returned by build()
    log,        \* history: the builder calls made so far, each with the Document before it
    passed,     \* history: the values handed to with_raw_json_spec* callbacks
    served,     \* Option of the last response of a registered handler
    supplied,   \* history: the Document the wrapper was created with
    arc,        \* which Arc the wrapper and each registered handler hold
    mounted,    \* Option of the contributor as the last mount left it
    pc,         \* where each thread is in the call it is making
    job,        \* the contributor each thread is mounting
    spec_lock,  \* the RwLock around the Document: its writer and its readers
    v3_lock,    \* the RwLock around the v3 cache: its writer and its readers
    seen,       \* Option of what each handler thread read last
    order       \* history: the writes in the order they took the Document lock

\* The threads and the locks, which the builder chain leaves alone.
locks == <<pc, job, spec_lock, v3_lock, seen, order>>

vars == <<spec, spec_v3, inner, normalize, app, log, passed, served,
          supplied, arc, mounted, locks>>

\* Longest chain of builder calls before build().
MaxCalls == 3

None == <<>>
Some(x) == <<x>>

EmptyMap == <<>>

\* BTreeMap::extend: every entry of new is inserted, replacing an entry of the same key.
Extend(old, new) ==
    [k \in (DOMAIN old) \cup (DOMAIN new) |-> IF k \in DOMAIN new THEN new[k] ELSE old[k]]

(***************************************************************************)
(* Strings                                                                 *)
(***************************************************************************)
Chars == {"a", "u"}

\* Byte order of the characters, which is the order of String keys in a BTreeMap.
CharRank(c) == IF c = "a" THEN 1 ELSE 2

\* s < t in the lexicographic order of String.
RECURSIVE StrLess(_, _)
StrLess(s, t) ==
    IF t = <<>> THEN FALSE
    ELSE IF s = <<>> THEN TRUE
    ELSE IF Head(s) # Head(t) THEN CharRank(Head(s)) < CharRank(Head(t))
    ELSE StrLess(Tail(s), Tail(t))

\* str::starts_with
StartsWith(s, pat) ==
    /\ Len(pat) <= Len(s)
    /\ SubSeq(s, 1, Len(pat)) = pat

\* A trim that removes the pattern from the start once.
TrimStartMatchesOnce(s, pat) ==
    IF StartsWith(s, pat) THEN SubSeq(s, Len(pat) + 1, Len(s)) ELSE s

\* str::trim_start_matches with a &str pattern: "all prefixes that match the
\* pattern repeatedly removed".  The empty pattern removes nothing.
RECURSIVE TrimStartMatches(_, _)
TrimStartMatches(s, pat) ==
    IF pat # <<>> /\ StartsWith(s, pat)
    THEN TrimStartMatches(SubSeq(s, Len(pat) + 1, Len(s)), pat)
    ELSE s

(***************************************************************************)
(* The Document and what contributors supply                               *)
(***************************************************************************)
\* HttpMethod (two of its variants).
Methods == {"Get", "Post"}

\* Parameter declarations of an operation.
Params == {"p"}

\* DefaultOperationRaw: what the operation is, and its parameters.
Operations == [id : {"opA", "opB"}, parameters : SUBSET Params]

Op(i, ps) == [id |-> i, parameters |-> ps]

\* DefaultPathItemRaw::default()
DefaultPathItem == [methods |-> EmptyMap, parameters |-> {}]

\* DefaultApiRaw::default()
DefaultApi ==
    [paths |-> EmptyMap, definitions |-> EmptyMap,
     security_definitions |-> EmptyMap, base_path |-> None]

\* The paths contributors are mounted at.
MountPaths == {<<"a", "u">>, <<"a", "a", "u">>, <<"u">>}

\* What a contributor reports besides its path: operations(), definitions()
\* and security_definitions().
Payloads ==
    { [operations |-> [m \in {"Get"} |-> Op("opA", {"p"})],
       definitions |-> [n \in {"Pet"} |-> "schemaX"],
       security_definitions |-> [n \in {"api_key"} |-> "schemeS"]],
      [operations |-> [m \in {"Post"} |-> Op("opB", {"p"})],
       definitions |-> [n \in {"Pet"} |-> "schemaY"],
       security_definitions |-> [n \in {"api_key"} |-> "schemeT"]],
      [operations |-> [m \in {"Get"} |-> Op("opB", {})],
       definitions |-> [n \in {"NewPet"} |-> "schemaY"],
       security_definitions |-> [n \in {"jwt"} |-> "schemeT"]] }

\* The Mountable objects handed to service(): path() and the three accessors.
Mountables ==
    { [path |-> p, operations |-> c.operations, definitions |-> c.definitions,
       security_definitions |-> c.security_definitions] : p \in MountPaths, c \in Payloads }

NoMountable ==
    [path |-> <<>>, operations |-> EmptyMap, definitions |-> EmptyMap,
     security_definitions |-> EmptyMap]

\* The Documents an application is wrapped with: wrap_api() starts from the
\* default, wrap_api_with_spec(spec) from the Document it is given.
StartSpecs ==
    { DefaultApi,
      [DefaultApi EXCEPT !.base_path = Some(<<"a">>)],
      [DefaultApi EXCEPT !.base_path = Some(<<"a">>),
                         !.paths = [k \in {<<"a", "u">>} |->
                                       [methods |-> [m \in {"Post"} |-> Op("opA", {"p"})],
                                        parameters |-> {}]],
                         !.definitions = [n \in {"Error"} |-> "schemaX"],
                         !.security_definitions = [n \in {"oauth"} |-> "schemeS"]] }

(***************************************************************************)
(* Collaborators in paperclip_core                                         *)
(***************************************************************************)
\* The parameters every operation of the PathItem declares.
SharedParams(item) ==
    IF DOMAIN item.methods = {} THEN {}
    ELSE {q \in Params : \A m \in DOMAIN item.methods : q \in item.methods[m].parameters}

\* PathItem::normalize: parameter declarations shared by the operations are
\* deduplicated into the PathItem's own parameters.
Normalize(item) ==
    [methods |-> [m \in DOMAIN item.methods |->
                     [item.methods[m] EXCEPT !.parameters = @ \ SharedParams(item)]],
     parameters |-> item.parameters \cup SharedParams(item)]

\* A merge that keeps the scheme already stored under a name.
AppendMapKeepExisting(old, new) == Extend(old, new)

\* SecurityScheme::append_map(old, new): the schemes of old are merged into
\* new; for a name in both, the scheme of old (the later registration) is stored.
AppendMap(old, new) == Extend(new, old)

\* The JSON name of an HttpMethod.
MethodJson(m) == IF m = "Get" THEN "get" ELSE "post"

\* Serialization of a PathItem: a mapping from HTTP method name to operation
\* object, beside the shared parameters.
PathItemJson(item) ==
    [operations |-> [j \in {MethodJson(m) : m \in DOMAIN item.methods} |->
                        item.methods[CHOOSE m \in DOMAIN item.methods : MethodJson(m) = j]],
     parameters |-> item.parameters]

\* serde_json::to_value of the Document: top-level keys paths, definitions,
\* securityDefinitions and basePath.
ToJson(api) ==
    [paths |-> [k \in DOMAIN api.paths |-> PathItemJson(api.paths[k])],
     definitions |-> api.definitions,
     securityDefinitions |-> api.security_definitions,
     basePath |-> api.base_path]

\* openapiv3::OpenAPI::default()
DefaultOpenAPI ==
    [openapi |-> "", servers |-> <<>>, paths |-> EmptyMap,
     components |-> [schemas |-> EmptyMap, securitySchemes |-> EmptyMap]]

\* paperclip_core::v3::openapiv2_to_v3: a pure function of the Document.
OpenApiV2ToV3(api) ==
    [openapi |-> "3.0.0",
     servers |-> IF api.base_path = None THEN <<>> ELSE <<[url |-> api.base_path[1]]>>,
     paths |-> api.paths,
     components |-> [schemas |-> api.definitions,
                     securitySchemes |-> api.security_definitions]]

\* Serialization of the translated document.
V3Json(v3) ==
    [openapi |-> v3.openapi,
     servers |-> v3.servers,
     paths |-> [k \in DOMAIN v3.paths |-> PathItemJson(v3.paths[k])],
     components |-> v3.components]

(***************************************************************************)
(* App::trim_base_path                                                     *)
(***************************************************************************)
\* The least String of a non-empty set: the next key of BTreeMap::iter().
MinStr(S) == CHOOSE s \in S : \A t \in S : t = s \/ StrLess(s, t)

\* spec.paths.iter().fold(BTreeMap::new(), |mut i, (k, v)| { i.insert(trim(k), v.clone()); i })
\* over the keys still to visit, in key order; an insert under a key already
\* in i replaces its value.
RECURSIVE FoldTrim(_, _, _, _)
FoldTrim(paths, keys, base_path, i) ==
    IF keys = {} THEN i
    ELSE LET k == MinStr(keys)
             nk == TrimStartMatches(k, base_path)
         IN  FoldTrim(paths, keys \ {k}, base_path,
                      [x \in (DOMAIN i) \cup {nk} |-> IF x = nk THEN paths[k] ELSE i[x]])

\* spec.base_path.clone().unwrap_or_default()
UnwrapOrDefault(opt) == IF opt = None THEN <<>> ELSE opt[1]

\* The body of trim_base_path, under the write lock.
TrimBasePath(api) ==
    [api EXCEPT !.paths = FoldTrim(api.paths, DOMAIN api.paths,
                                   UnwrapOrDefault(api.base_path), EmptyMap)]

(***************************************************************************)
(* Mountable::update_operations and App::update_from_mountable             *)
(***************************************************************************)
\* map.entry(self.path().into()).or_insert_with(Default::default)
EntryOrDefault(map, path) == IF path \in DOMAIN map THEN map[path] ELSE DefaultPathItem

\* An update that replaces the methods of the PathItem instead of extending them.
update_operations_replacing(factory, map) ==
    [k \in (DOMAIN map) \cup {factory.path} |->
        IF k = factory.path
        THEN [EntryOrDefault(map, factory.path) EXCEPT !.methods = factory.operations]
        ELSE map[k]]

\* An update that keeps the operation already stored under a method.
update_operations_keeping(factory, map) ==
    [k \in (DOMAIN map) \cup {factory.path} |->
        IF k = factory.path
        THEN [EntryOrDefault(map, factory.path) EXCEPT !.methods = Extend(factory.operations, @)]
        ELSE map[k]]

\* An update that starts a new map with the PathItem of this path alone.
update_operations_alone(factory, map) ==
    [k \in {factory.path} |->
        [EntryOrDefault(map, factory.path) EXCEPT !.methods = Extend(@, factory.operations)]]

\* The default update_operations: the PathItem at the path is looked up or
\* created and its methods are extended with operations().
update_operations(factory, map) ==
    LET op_map == EntryOrDefault(map, factory.path)
    IN  [k \in (DOMAIN map) \cup {factory.path} |->
            IF k = factory.path
            THEN [op_map EXCEPT !.methods = Extend(@, factory.operations)]
            ELSE map[k]]

\* for map in api.paths.values_mut() { map.normalize(); }
NormalizeAll(paths) == [k \in DOMAIN paths |-> Normalize(paths[k])]

\* A mount that replaces the definitions instead of extending them.
update_from_mountable_replacing(api, factory) ==
    LET paths == update_operations(factory, api.paths)
    IN  [api EXCEPT !.definitions = factory.definitions,
                    !.security_definitions =
                        AppendMap(factory.security_definitions, api.security_definitions),
                    !.paths = IF normalize THEN NormalizeAll(paths) ELSE paths]

\* A mount that also rewrites the path keys by the base path.
update_from_mountable_trimming(api, factory) ==
    LET paths == update_operations(factory, api.paths)
        merged == [api EXCEPT !.definitions = Extend(api.definitions, factory.definitions),
                              !.security_definitions =
                                  AppendMap(factory.security_definitions, api.security_definitions),
                              !.paths = IF normalize THEN NormalizeAll(paths) ELSE paths]
    IN  [merged EXCEPT !.paths = FoldTrim(merged.paths, DOMAIN merged.paths,
                                          UnwrapOrDefault(merged.base_path), EmptyMap)]

\* A mount that normalizes the PathItem of the contributor's path alone.
update_from_mountable_normalizing_one(api, factory) ==
    LET paths == update_operations(factory, api.paths)
    IN  [api EXCEPT !.definitions = Extend(api.definitions, factory.definitions),
                    !.security_definitions =
                        AppendMap(factory.security_definitions, api.security_definitions),
                    !.paths = IF normalize
                              THEN [paths EXCEPT ![factory.path] = Normalize(@)]
                              ELSE paths]

\* The accessors of a Mountable that hand out what the contributor holds.
Accessors == {"definitions", "security_definitions", "operations"}

\* factory: &mut F, a contributor nothing has been taken out of yet.
Contributor(factory) == [state |-> factory, calls |-> <<>>]

\* A call of a one-shot accessor: what it returns (obj.state[accessor]) is
\* taken out of the contributor.
Take(obj, accessor) ==
    [obj EXCEPT !.state[accessor] = EmptyMap, !.calls = Append(@, accessor)]

\* A mount that calls operations() once to look at it and once more to
\* extend the PathItem.
MountCallingTwice(api, obj) ==
    LET definitions == Extend(api.definitions, obj.state.definitions)
        c1 == Take(obj, "definitions")
        security == AppendMap(c1.state.security_definitions, api.security_definitions)
        c2 == Take(c1, "security_definitions")
        c3 == Take(c2, "operations")
        paths == update_operations(c3.state, api.paths)
        c4 == Take(c3, "operations")
    IN  [api |-> [api EXCEPT !.definitions = definitions,
                             !.security_definitions = security,
                             !.paths = IF normalize THEN NormalizeAll(paths) ELSE paths],
         factory |-> c4]

\* The body of update_from_mountable on the Document under the write guard
\* and the contributor behind &mut factory: definitions(), then
\* security_definitions(), then update_operations with its one call of
\* operations(), then the Normalizer when the feature is enabled.
Mount(api, obj) ==
    LET definitions == Extend(api.definitions, obj.state.definitions)
        c1 == Take(obj, "definitions")
        security == AppendMap(c1.state.security_definitions, api.security_definitions)
        c2 == Take(c1, "security_definitions")
        paths == update_operations(c2.state, api.paths)
        c3 == Take(c2, "operations")
    IN  [api |-> [api EXCEPT !.definitions = definitions,
                             !.security_definitions = security,
                             !.paths = IF normalize THEN NormalizeAll(paths) ELSE paths],
         factory |-> c3]

\* update_from_mountable, between taking and releasing the write lock.
update_from_mountable(api, factory) == Mount(api, Contributor(factory)).api

(***************************************************************************)
(* The wrapper and its builder operations                                  *)
(***************************************************************************)
\* The path the JSON endpoints are registered at.
SpecPaths == {<<"u", "u">>}

Service(kind, path) == [kind |-> kind, path |-> path]

Call(op, factory) == [op |-> op, factory |-> factory, before |-> spec]

\* The wrapper is still owned by the caller, who may make another call.
Building == app = None /\ inner # None /\ Len(log) < MaxCalls

\* A take() whose result is dropped instead of being stored back.
RegisterDropped(svc) == None

\* self.inner = self.inner.take().map(|a| a.service(..)) and its like
Register(svc) == IF inner = None THEN None ELSE Some(inner[1] \cup {svc})

\* The threads of the lock-level view: two that write the Document or
\* rebuild the cache, and one that serves the handlers.
Writers == {"w1", "w2"}

Handlers == {"h1"}

Threads == Writers \cup Handlers

\* RwLock::new
Unlocked == [writer |-> {}, readers |-> {}]

\* No thread is inside a call and both locks are free.
Quiet ==
    /\ pc = [t \in Threads |-> "idle"]
    /\ job = [t \in Threads |-> NoMountable]
    /\ spec_lock = Unlocked
    /\ v3_lock = Unlocked
    /\ seen = [t \in Handlers |-> None]
    /\ order = <<>>

\* Arc::new(RwLock::new(..)): the Arcs are numbered as they are made, the
\* Document's being the first.
NewArcs == [spec |-> 0, v3 |-> None, handlers |-> {}, handlers_v3 |-> {}, next |-> 1]

\* wrap_api() and wrap_api_with_spec(spec)
Init ==
    /\ spec \in StartSpecs
    /\ spec_v3 = None
    /\ inner = Some({})
    /\ normalize \in BOOLEAN
    /\ app = None
    /\ log = <<>>
    /\ passed = <<>>
    /\ served = None
    /\ supplied = spec
    /\ arc = NewArcs
    /\ mounted = None
    /\ Quiet

\* service(factory), and route(path, route) with factory = RouteWrapper::from(path, route)
service(factory) ==
    /\ Building
    /\ spec' = update_from_mountable(spec, factory)
    /\ mounted' = Some(Mount(spec, Contributor(factory)).factory)
    /\ inner' = Register(Service("service", factory.path))
    /\ log' = Append(log, Call("service", factory))
    /\ UNCHANGED <<spec_v3, normalize, app, passed, served, supplied, arc, locks>>

trim_base_path ==
    /\ Building
    /\ spec' = TrimBasePath(spec)
    /\ log' = Append(log, Call("trim_base_path", NoMountable))
    /\ UNCHANGED <<spec_v3, inner, normalize, app, passed, served, supplied, arc, mounted, locks>>

\* The handler holds self.spec.clone(): the same Document, not a copy of it.
with_json_spec_at(path) ==
    /\ Building
    /\ inner' = Register(Service("SpecHandler", path))
    /\ arc' = [arc EXCEPT !.handlers = @ \cup {arc.spec}]
    /\ log' = Append(log, Call("with_json_spec_at", NoMountable))
    /\ UNCHANGED <<spec, spec_v3, normalize, app, passed, served, supplied, mounted, locks>>

\* The cache's Arc is made by the first with_json_spec_v3_at and shared by
\* the later ones; the handler holds a clone of it.
V3Arc(a) ==
    LET v3 == IF a.v3 # None THEN a.v3[1] ELSE a.next
    IN  [a EXCEPT !.v3 = Some(v3),
                  !.handlers_v3 = @ \cup {v3},
                  !.next = IF a.v3 # None THEN @ ELSE @ + 1]

with_json_spec_v3_at(path) ==
    /\ Building
    /\ spec_v3' = IF spec_v3 # None THEN spec_v3 ELSE Some(DefaultOpenAPI)
    /\ inner' = Register(Service("SpecHandlerV3", path))
    /\ arc' = V3Arc(arc)
    /\ log' = Append(log, Call("with_json_spec_v3_at", NoMountable))
    /\ UNCHANGED <<spec, normalize, app, passed, served, supplied, mounted, locks>>

\* The serialization of a fresh Document instead of the wrapper's.
RawJsonSpecFresh == ToJson(DefaultApi)

\* serde_json::to_value(&*self.spec.read())
RawJsonSpec == ToJson(spec)

\* The translation of a fresh Document instead of the wrapper's.
RawJsonSpecV3Fresh == V3Json(OpenApiV2ToV3(DefaultApi))

\* serde_json::to_value(openapiv2_to_v3(self.spec.read().clone()))
RawJsonSpecV3 == V3Json(OpenApiV2ToV3(spec))

\* with_raw_json_spec(call): call(self, spec); what the callback does with
\* the wrapper it is given are the calls that follow.
with_raw_json_spec ==
    /\ Building
    /\ passed' = Append(passed, [call |-> Len(log) + 1, value |-> RawJsonSpec])
    /\ log' = Append(log, Call("with_raw_json_spec", NoMountable))
    /\ UNCHANGED <<spec, spec_v3, inner, normalize, app, served, supplied, arc, mounted, locks>>

with_raw_json_spec_v3 ==
    /\ Building
    /\ passed' = Append(passed, [call |-> Len(log) + 1, value |-> RawJsonSpecV3])
    /\ log' = Append(log, Call("with_raw_json_spec_v3", NoMountable))
    /\ UNCHANGED <<spec, spec_v3, inner, normalize, app, served, supplied, arc, mounted, locks>>

\* A build that leaves the cache as it is.
BuildV3Skipped(v3) == v3

\* self.spec_v3.clone().map(|v3| { *v3.write() = openapiv2_to_v3(self.spec.read().clone()) })
BuildV3(v3) == IF v3 = None THEN None ELSE Some(OpenApiV2ToV3(spec))

\* build(): the cache is recomputed and the inner application is handed out.
build ==
    /\ app = None
    /\ inner # None
    /\ spec_v3' = BuildV3(spec_v3)
    /\ app' = inner
    /\ inner' = None
    /\ UNCHANGED <<spec, normalize, log, passed, served, supplied, arc, mounted, locks>>

(***************************************************************************)
(* The handlers, once the application serves requests                      *)
(***************************************************************************)
\* A handler that serves a copy of the Document taken when it was registered.
SpecHandlerCallAtRegistration ==
    ToJson(log[CHOOSE i \in 1..Len(log) :
                  /\ log[i].op = "with_json_spec_at"
                  /\ \A j \in 1..(i - 1) : log[j].op # "with_json_spec_at"].before)

\* SpecHandler::call: HttpResponse::Ok().json(&*self.0.read())
SpecHandlerCall == ToJson(spec)

\* SpecHandlerV3::call: HttpResponse::Ok().json(&*self.0.read())
SpecHandlerV3Call == V3Json(spec_v3[1])

GetJsonSpec ==
    /\ app # None
    /\ \E svc \in app[1] : svc.kind = "SpecHandler"
    /\ served' = Some([handler |-> "SpecHandler", body |-> SpecHandlerCall])
    /\ UNCHANGED <<spec, spec_v3, inner, normalize, app, log, passed, supplied, arc, mounted, locks>>

GetJsonSpecV3 ==
    /\ app # None
    /\ \E svc \in app[1] : svc.kind = "SpecHandlerV3"
    /\ served' = Some([handler |-> "SpecHandlerV3", body |-> SpecHandlerV3Call])
    /\ UNCHANGED <<spec, spec_v3, inner, normalize, app, log, passed, supplied, arc, mounted, locks>>

Next ==
    \/ \E factory \in Mountables : service(factory)
    \/ trim_base_path
    \/ \E path \in SpecPaths : with_json_spec_at(path)
    \/ \E path \in SpecPaths : with_json_spec_v3_at(path)
    \/ with_raw_json_spec
    \/ with_raw_json_spec_v3
    \/ build
    \/ GetJsonSpec
    \/ GetJsonSpecV3

Spec == Init /\ [][Next]_vars

(***************************************************************************)
(* The proxies of actix_web::App, configure and route, in the chain        *)
(***************************************************************************)
\* The contributor that configure, route and service are given in chains
\* with proxies.
ProxyMountables ==
    {f \in Mountables : f.path = <<"u">> /\ "Post" \in DOMAIN f.operations}

\* A proxy: the call is passed on to the inner application and nothing else
\* of the wrapper is touched.
Proxy(op) ==
    /\ Building
    /\ inner' = Register(Service(op, <<>>))
    /\ log' = Append(log, Call(op, NoMountable))
    /\ UNCHANGED <<spec, spec_v3, normalize, app, passed, served,
                   supplied, arc, mounted, locks>>

data == Proxy("data")

data_factory == Proxy("data_factory")

app_data == Proxy("app_data")

default_service == Proxy("default_service")

external_resource == Proxy("external_resource")

\* A new wrapper that is given fresh Arcs holding copies.
WrapArcsCloned(a) ==
    [a EXCEPT !.spec = a.next,
              !.v3 = IF a.v3 = None THEN None ELSE Some(a.next + 1),
              !.next = a.next + 2]

\* App { spec: self.spec, spec_v3: self.spec_v3, .. }: the Arcs are moved
\* into the wrapper that wrap and wrap_fn return.
WrapArcs(a) == a

\* wrap(mw) and wrap_fn(mw): the wrapper returned has the wrapped inner
\* application and the Arcs of the one it was made from.
Wrapped(op) ==
    /\ Building
    /\ inner' = Register(Service(op, <<>>))
    /\ arc' = WrapArcs(arc)
    /\ log' = Append(log, Call(op, NoMountable))
    /\ UNCHANGED <<spec, spec_v3, normalize, app, passed, served,
                   supplied, mounted, locks>>

wrap == Wrapped("wrap")

wrap_fn == Wrapped("wrap_fn")

\* configure(f): inside the closure given to the inner application, cfg is
\* the ServiceConfig after f has registered factory in it, and it is mounted.
configure(factory) ==
    /\ Building
    /\ spec' = update_from_mountable(spec, factory)
    /\ mounted' = Some(Mount(spec, Contributor(factory)).factory)
    /\ inner' = Register(Service("configure", factory.path))
    /\ log' = Append(log, Call("configure", factory))
    /\ UNCHANGED <<spec_v3, normalize, app, passed, served, supplied, arc, locks>>

\* route(path, route): w = RouteWrapper::from(path, route) is mounted, then
\* the route is passed on to the inner application.
route(factory) ==
    /\ Building
    /\ spec' = update_from_mountable(spec, factory)
    /\ mounted' = Some(Mount(spec, Contributor(factory)).factory)
    /\ inner' = Register(Service("route", factory.path))
    /\ log' = Append(log, Call("route", factory))
    /\ UNCHANGED <<spec_v3, normalize, app, passed, served, supplied, arc, locks>>

NextProxies ==
    \/ \E factory \in ProxyMountables : service(factory)
    \/ \E factory \in ProxyMountables : configure(factory)
    \/ \E factory \in ProxyMountables : route(factory)
    \/ trim_base_path
    \/ \E path \in SpecPaths : with_json_spec_at(path)
    \/ \E path \in SpecPaths : with_json_spec_v3_at(path)
    \/ with_raw_json_spec
    \/ data
    \/ data_factory
    \/ app_data
    \/ default_service
    \/ external_resource
    \/ wrap
    \/ wrap_fn
    \/ build
    \/ GetJsonSpec

SpecProxies == Init /\ [][NextProxies]_vars

(***************************************************************************)
(* The locks: the same calls, one lock operation or statement at a time,   *)
(* made by threads that share the Document and the cache                   *)
(***************************************************************************)
\* Most writes of the Document the threads make between them.
MaxWrites == 2

\* The contributors the threads mount: two with different operations for
\* the same path and method.
LockMountables ==
    {f \in Mountables : f.path = <<"a", "u">> /\ "Get" \in DOMAIN f.operations}

\* The wrapper's own fields, which the lock operations leave alone.
chain == <<inner, normalize, app, log, passed, served, supplied, arc, mounted>>

\* The wrapper is still there to be called: build() has not returned, and
\* no thread is inside build(), which takes the wrapper by value.
Owned ==
    /\ app = None
    /\ inner # None
    /\ \A t \in Threads : pc[t] \notin {"v3_write", "spec_read", "assign", "v3_unlock"}

\* A write lock that is granted while another writer holds the lock.
CanWriteBesideWriter(lock) == lock.readers = {}

\* RwLock::write returns once nobody holds the lock.
CanWrite(lock) == lock.writer = {} /\ lock.readers = {}

\* RwLock::read returns once no writer holds the lock.
CanRead(lock) == lock.writer = {}

\* A write guard that is dropped at the end of each statement.
GuardDropped(lock) == [lock EXCEPT !.writer = {}]

\* let mut api = self.spec.write(): the guard lives to the end of
\* update_from_mountable, so the lock is as it was after each statement.
GuardKept(lock) == lock

\* The wrapper after wrap_api*().with_json_spec_at(..).with_json_spec_v3_at(..),
\* its Document and cache shared by the threads.
InitLocks ==
    /\ spec \in StartSpecs
    /\ spec_v3 = Some(DefaultOpenAPI)
    /\ inner = Some({Service("SpecHandler", p) : p \in SpecPaths}
                    \cup {Service("SpecHandlerV3", p) : p \in SpecPaths})
    /\ normalize \in BOOLEAN
    /\ app = None
    /\ log = <<>>
    /\ passed = <<>>
    /\ served = None
    /\ supplied = spec
    /\ arc = V3Arc([NewArcs EXCEPT !.handlers = {NewArcs.spec}])
    /\ mounted = None
    /\ Quiet

\* update_from_mountable: let mut api = self.spec.write()
StartMount(t, factory) ==
    /\ pc[t] = "idle"
    /\ app = None
    /\ Len(order) < MaxWrites
    /\ CanWrite(spec_lock)
    /\ spec_lock' = [spec_lock EXCEPT !.writer = @ \cup {t}]
    /\ pc' = [pc EXCEPT ![t] = "definitions"]
    /\ job' = [job EXCEPT ![t] = factory]
    /\ order' = Append(order, [op |-> "service", factory |-> factory, thread |-> t])
    /\ UNCHANGED <<spec, spec_v3, v3_lock, seen, chain>>

\* api.definitions.extend(factory.definitions())
MountDefinitions(t) ==
    /\ pc[t] = "definitions"
    /\ spec' = [spec EXCEPT !.definitions = Extend(@, job[t].definitions)]
    /\ spec_lock' = GuardKept(spec_lock)
    /\ pc' = [pc EXCEPT ![t] = "security_definitions"]
    /\ UNCHANGED <<spec_v3, job, v3_lock, seen, order, chain>>

\* SecurityScheme::append_map(factory.security_definitions(), &mut api.security_definitions)
MountSecurity(t) ==
    /\ pc[t] = "security_definitions"
    /\ spec' = [spec EXCEPT !.security_definitions =
                                AppendMap(job[t].security_definitions, @)]
    /\ spec_lock' = GuardKept(spec_lock)
    /\ pc' = [pc EXCEPT ![t] = "update_operations"]
    /\ UNCHANGED <<spec_v3, job, v3_lock, seen, order, chain>>

\* factory.update_operations(&mut api.paths)
MountOperations(t) ==
    /\ pc[t] = "update_operations"
    /\ spec' = [spec EXCEPT !.paths = update_operations(job[t], @)]
    /\ spec_lock' = GuardKept(spec_lock)
    /\ pc' = [pc EXCEPT ![t] = "normalize"]
    /\ UNCHANGED <<spec_v3, job, v3_lock, seen, order, chain>>

\* if cfg!(feature = "normalize") { .. }, and the guard is dropped on return
MountNormalize(t) ==
    /\ pc[t] = "normalize"
    /\ spec' = IF normalize THEN [spec EXCEPT !.paths = NormalizeAll(@)] ELSE spec
    /\ spec_lock' = [spec_lock EXCEPT !.writer = @ \ {t}]
    /\ pc' = [pc EXCEPT ![t] = "idle"]
    /\ job' = [job EXCEPT ![t] = NoMountable]
    /\ UNCHANGED <<spec_v3, v3_lock, seen, order, chain>>

\* trim_base_path: let mut spec = self.spec.write()
StartTrim(t) ==
    /\ pc[t] = "idle"
    /\ app = None
    /\ Len(order) < MaxWrites
    /\ CanWrite(spec_lock)
    /\ spec_lock' = [spec_lock EXCEPT !.writer = @ \cup {t}]
    /\ pc' = [pc EXCEPT ![t] = "fold"]
    /\ order' = Append(order, [op |-> "trim_base_path", factory |-> NoMountable, thread |-> t])
    /\ UNCHANGED <<spec, spec_v3, job, v3_lock, seen, chain>>

\* spec.paths = spec.paths.iter().fold(..), and the guard is dropped on return
TrimFold(t) ==
    /\ pc[t] = "fold"
    /\ spec' = TrimBasePath(spec)
    /\ spec_lock' = [spec_lock EXCEPT !.writer = @ \ {t}]
    /\ pc' = [pc EXCEPT ![t] = "idle"]
    /\ UNCHANGED <<spec_v3, job, v3_lock, seen, order, chain>>

\* build(): self.spec_v3.clone().map(..) runs its closure when there is a cache
StartBuild(t) ==
    /\ pc[t] = "idle"
    /\ Owned
    /\ spec_v3 # None
    /\ pc' = [pc EXCEPT ![t] = "v3_write"]
    /\ UNCHANGED <<spec, spec_v3, job, spec_lock, v3_lock, seen, order, chain>>

\* let mut v3 = v3.write()
BuildWriteV3(t) ==
    /\ pc[t] = "v3_write"
    /\ CanWrite(v3_lock)
    /\ v3_lock' = [v3_lock EXCEPT !.writer = @ \cup {t}]
    /\ pc' = [pc EXCEPT ![t] = "spec_read"]
    /\ UNCHANGED <<spec, spec_v3, job, spec_lock, seen, order, chain>>

\* self.spec.read(), inside the statement that assigns *v3
BuildReadSpec(t) ==
    /\ pc[t] = "spec_read"
    /\ CanRead(spec_lock)
    /\ spec_lock' = [spec_lock EXCEPT !.readers = @ \cup {t}]
    /\ pc' = [pc EXCEPT ![t] = "assign"]
    /\ UNCHANGED <<spec, spec_v3, job, v3_lock, seen, order, chain>>

\* *v3 = openapiv2_to_v3(self.spec.read().clone()); the read guard is a
\* temporary of this statement and is dropped at its end
BuildAssign(t) ==
    /\ pc[t] = "assign"
    /\ spec_v3' = BuildV3(spec_v3)
    /\ spec_lock' = [spec_lock EXCEPT !.readers = @ \ {t}]
    /\ pc' = [pc EXCEPT ![t] = "v3_unlock"]
    /\ UNCHANGED <<spec, job, v3_lock, seen, order, chain>>

\* the closure returns, v3 is dropped, and build() returns
\* self.inner.expect("missing app?")
BuildUnlockV3(t) ==
    /\ pc[t] = "v3_unlock"
    /\ v3_lock' = [v3_lock EXCEPT !.writer = @ \ {t}]
    /\ pc' = [pc EXCEPT ![t] = "idle"]
    /\ app' = inner
    /\ inner' = None
    /\ UNCHANGED <<spec, spec_v3, job, spec_lock, seen, order,
                   normalize, log, passed, served, supplied, arc, mounted>>

\* SpecHandler::call: self.0.read()
StartGetJsonSpec(h) ==
    /\ pc[h] = "idle"
    /\ CanRead(spec_lock)
    /\ spec_lock' = [spec_lock EXCEPT !.readers = @ \cup {h}]
    /\ pc' = [pc EXCEPT ![h] = "json"]
    /\ UNCHANGED <<spec, spec_v3, job, v3_lock, seen, order, chain>>

\* HttpResponse::Ok().json(&*self.0.read()), and the guard is dropped
FinishGetJsonSpec(h) ==
    /\ pc[h] = "json"
    /\ seen' = [seen EXCEPT ![h] = Some([handler |-> "SpecHandler", document |-> spec])]
    /\ spec_lock' = [spec_lock EXCEPT !.readers = @ \ {h}]
    /\ pc' = [pc EXCEPT ![h] = "idle"]
    /\ UNCHANGED <<spec, spec_v3, job, v3_lock, order, chain>>

\* SpecHandlerV3::call: self.0.read()
StartGetJsonSpecV3(h) ==
    /\ pc[h] = "idle"
    /\ spec_v3 # None
    /\ CanRead(v3_lock)
    /\ v3_lock' = [v3_lock EXCEPT !.readers = @ \cup {h}]
    /\ pc' = [pc EXCEPT ![h] = "json_v3"]
    /\ UNCHANGED <<spec, spec_v3, job, spec_lock, seen, order, chain>>

\* HttpResponse::Ok().json(&*self.0.read()), and the guard is dropped
FinishGetJsonSpecV3(h) ==
    /\ pc[h] = "json_v3"
    /\ seen' = [seen EXCEPT ![h] = Some([handler |-> "SpecHandlerV3", document |-> spec_v3[1]])]
    /\ v3_lock' = [v3_lock EXCEPT !.readers = @ \ {h}]
    /\ pc' = [pc EXCEPT ![h] = "idle"]
    /\ UNCHANGED <<spec, spec_v3, job, spec_lock, order, chain>>

NextLocks ==
    \/ \E t \in Writers : \E factory \in LockMountables : StartMount(t, factory)
    \/ \E t \in Writers : MountDefinitions(t)
    \/ \E t \in Writers : MountSecurity(t)
    \/ \E t \in Writers : MountOperations(t)
    \/ \E t \in Writers : MountNormalize(t)
    \/ \E t \in Writers : StartTrim(t)
    \/ \E t \in Writers : TrimFold(t)
    \/ \E t \in Writers : StartBuild(t)
    \/ \E t \in Writers : BuildWriteV3(t)
    \/ \E t \in Writers : BuildReadSpec(t)
    \/ \E t \in Writers : BuildAssign(t)
    \/ \E t \in Writers : BuildUnlockV3(t)
    \/ \E h \in Handlers : StartGetJsonSpec(h)
    \/ \E h \in Handlers : FinishGetJsonSpec(h)
    \/ \E h \in Handlers : StartGetJsonSpecV3(h)
    \/ \E h \in Handlers : FinishGetJsonSpecV3(h)

SpecLocks == InitLocks /\ [][NextLocks]_vars

(***************************************************************************)
(* Reading the history                                                     *)
(***************************************************************************)
Calls == 1..Len(log)

\* The Document after the i-th builder call.
After(i) == IF i < Len(log) THEN log[i + 1].before ELSE spec

IsService(i) == log[i].op = "service"

IsTrim(i) == log[i].op = "trim_base_path"

\* No trim_base_path among the calls i+1 .. Len(log).
NoTrimAfter(i) == \A t \in Calls : t > i => ~IsTrim(t)

\* The i-th and the next call mount contributors at the same path with
\* disjoint method sets.
SamePathDisjointMethods(i) ==
    /\ i + 1 \in Calls
    /\ IsService(i) /\ IsService(i + 1)
    /\ log[i].factory.path = log[i + 1].factory.path
    /\ (DOMAIN log[i].factory.operations) \cap (DOMAIN log[i + 1].factory.operations) = {}

\* The operation stored under method m of item is op, less the parameters
\* the Normalizer moved to the PathItem when normalization is enabled.
StoredAs(item, m, op) ==
    /\ m \in DOMAIN item.methods
    /\ IF normalize
       THEN /\ item.methods[m].id = op.id
            /\ item.methods[m].parameters \subseteq op.parameters
            /\ (op.parameters \ item.methods[m].parameters) \subseteq item.parameters
       ELSE item.methods[m] = op

\* Every entry of map m is an entry of map big.
Contains(big, m) == \A k \in DOMAIN m : k \in DOMAIN big /\ big[k] = m[k]

(***************************************************************************)
(* C1                                                                      *)
(***************************************************************************)
\* C1 as stated: after mounting A and then B at the same path with disjoint
\* method sets, the PathItem at that path holds the union of the method maps,
\* each method bound to its contributor's operation, and definitions contains
\* every definition of A and of B.
C1_AsStated ==
    \A i \in Calls : SamePathDisjointMethods(i) =>
        LET A == log[i].factory
            B == log[i + 1].factory
            start == EntryOrDefault(log[i].before.paths, A.path)
            doc == After(i + 1)
        IN  /\ A.path \in DOMAIN doc.paths
            /\ DOMAIN doc.paths[A.path].methods =
                   (DOMAIN start.methods) \cup (DOMAIN A.operations) \cup (DOMAIN B.operations)
            /\ Contains(doc.paths[A.path].methods, A.operations)
            /\ Contains(doc.paths[A.path].methods, B.operations)
            /\ Contains(doc.definitions, A.definitions)
            /\ Contains(doc.definitions, B.definitions)

\* C1 amended: after mounting A and then B at the same path with disjoint
\* method sets, the methods of the PathItem at that path are those it had
\* plus those of A and of B; each method of A and of B is bound to its
\* contributor's operation when normalization is disabled, and to that
\* operation less the parameters moved to the PathItem's shared parameters
\* when it is enabled; definitions holds every definition of B, and every
\* definition of A under a name that B does not declare.
C1_MountUnion ==
    \A i \in Calls : SamePathDisjointMethods(i) =>
        LET A == log[i].factory
            B == log[i + 1].factory
            start == EntryOrDefault(log[i].before.paths, A.path)
            doc == After(i + 1)
        IN  /\ A.path \in DOMAIN doc.paths
            /\ DOMAIN doc.paths[A.path].methods =
                   (DOMAIN start.methods) \cup (DOMAIN A.operations) \cup (DOMAIN B.operations)
            /\ \A m \in DOMAIN A.operations : StoredAs(doc.paths[A.path], m, A.operations[m])
            /\ \A m \in DOMAIN B.operations : StoredAs(doc.paths[A.path], m, B.operations[m])
            /\ Contains(doc.definitions, B.definitions)
            /\ \A n \in (DOMAIN A.definitions) \ (DOMAIN B.definitions) :
                   n \in DOMAIN doc.definitions /\ doc.definitions[n] = A.definitions[n]

\* Two contributors have been mounted one after the other at the same path,
\* one with Get and one with Post, they declare the same schema name, and
\* the PathItem holds both methods.
C1_Witness ==
    \E i \in Calls :
        /\ SamePathDisjointMethods(i)
        /\ i + 1 = Len(log)
        /\ (DOMAIN log[i].factory.definitions) \cap (DOMAIN log[i + 1].factory.definitions) # {}
        /\ DOMAIN spec.paths[log[i].factory.path].methods = {"Get", "Post"}

(***************************************************************************)
(* C2                                                                      *)
(***************************************************************************)
\* Contributor i was mounted before contributor j at the same path, and both
\* declare method m.
SamePathSameMethod(i, j, m) ==
    /\ i \in Calls /\ j \in Calls /\ i < j
    /\ IsService(i) /\ IsService(j)
    /\ log[i].factory.path = log[j].factory.path
    /\ m \in (DOMAIN log[i].factory.operations) \cap (DOMAIN log[j].factory.operations)

\* C2 as stated: when B is mounted after A at the same path with the same
\* method, the Document's entry for that path and method equals B's operation.
C2_AsStated ==
    \A i, j \in Calls : \A m \in Methods : SamePathSameMethod(i, j, m) =>
        LET B == log[j].factory
            doc == After(j)
        IN  /\ B.path \in DOMAIN doc.paths
            /\ m \in DOMAIN doc.paths[B.path].methods
            /\ doc.paths[B.path].methods[m] = B.operations[m]

\* C2 amended: when B is mounted after A at the same path with the same
\* method, the Document's entry for that path and method is B's operation
\* and not A's: equal to B's operation when normalization is disabled, and
\* to B's operation less the parameters moved to the PathItem's shared
\* parameters when it is enabled.
C2_LastWriteWins ==
    \A j \in Calls : \A i \in 1..(j - 1) : \A m \in Methods : SamePathSameMethod(i, j, m) =>
        LET B == log[j].factory
            doc == After(j)
        IN  /\ B.path \in DOMAIN doc.paths
            /\ StoredAs(doc.paths[B.path], m, B.operations[m])

\* B has just been mounted at a path where Get was bound to another
\* operation, and Get is now bound to B's.
C2_Witness ==
    \E i, j \in Calls :
        /\ SamePathSameMethod(i, j, "Get")
        /\ j = Len(log)
        /\ log[i].factory.operations["Get"].id # log[j].factory.operations["Get"].id
        /\ log[j].before.paths[log[j].factory.path].methods["Get"].id = log[i].factory.operations["Get"].id
        /\ spec.paths[log[j].factory.path].methods["Get"].id = log[j].factory.operations["Get"].id

(***************************************************************************)
(* C3                                                                      *)
(***************************************************************************)
DisjointNames(A, B) ==
    /\ (DOMAIN A.definitions) \cap (DOMAIN B.definitions) = {}
    /\ (DOMAIN A.security_definitions) \cap (DOMAIN B.security_definitions) = {}

\* The i-th and the next call mount contributors at different paths that
\* share no definition or security-scheme name.
DifferentPaths(i) ==
    /\ i + 1 \in Calls
    /\ IsService(i) /\ IsService(i + 1)
    /\ log[i].factory.path # log[i + 1].factory.path
    /\ DisjointNames(log[i].factory, log[i + 1].factory)

\* Every PathItem of the Document is a fixed point of the Normalizer.
IsNormalized(api) == \A k \in DOMAIN api.paths : Normalize(api.paths[k]) = api.paths[k]

\* C3 as stated: mounting A then B, with different paths and no shared
\* definition or security-scheme name, gives the Document that mounting B
\* then A gives from the same starting Document, and its path keys are the
\* starting keys plus A's path plus B's path.
C3_AsStated ==
    \A i \in Calls : DifferentPaths(i) =>
        LET A == log[i].factory
            B == log[i + 1].factory
            start == log[i].before
        IN  /\ After(i + 1) = update_from_mountable(update_from_mountable(start, B), A)
            /\ DOMAIN After(i + 1).paths = (DOMAIN start.paths) \cup {A.path, B.path}

\* C3 amended: mounting A then B, with different paths and no shared
\* definition or security-scheme name, gives a Document whose path keys are
\* the starting keys plus A's path plus B's path; it is the Document that
\* mounting B then A gives from the same starting Document when
\* normalization is disabled or every PathItem of the starting Document is
\* already normalized.
C3_DisjointPathsCommute ==
    \A i \in Calls : DifferentPaths(i) =>
        LET A == log[i].factory
            B == log[i + 1].factory
            start == log[i].before
        IN  /\ (~normalize \/ IsNormalized(start)) =>
                   After(i + 1) = update_from_mountable(update_from_mountable(start, B), A)
            /\ DOMAIN After(i + 1).paths = (DOMAIN start.paths) \cup {A.path, B.path}

\* With normalization enabled, two contributors have just been mounted at
\* two paths that the normalized, non-empty starting Document did not have,
\* and the Document has both.
C3_Witness ==
    \E i \in Calls :
        /\ DifferentPaths(i)
        /\ i + 1 = Len(log)
        /\ normalize
        /\ log[i].before.paths # EmptyMap
        /\ IsNormalized(log[i].before)
        /\ {log[i].factory.path, log[i + 1].factory.path} \cap DOMAIN log[i].before.paths = {}
        /\ {log[i].factory.path, log[i + 1].factory.path} \subseteq DOMAIN spec.paths

(***************************************************************************)
(* C4                                                                      *)
(***************************************************************************)
\* Contributor i was mounted before contributor j, and both declare schema
\* name n with different bodies.
SameSchemaName(i, j, n) ==
    /\ i \in Calls /\ j \in Calls /\ i < j
    /\ IsService(i) /\ IsService(j)
    /\ n \in (DOMAIN log[i].factory.definitions) \cap (DOMAIN log[j].factory.definitions)
    /\ log[i].factory.definitions[n] # log[j].factory.definitions[n]

\* C4: when two contributors declare the same schema name with different
\* bodies, after the second mount definitions[name] is the second
\* contributor's body, and every definition under a name the second
\* contributor does not declare is as it was before that mount.
C4_DefinitionOverwrite ==
    \A j \in Calls : \A i \in 1..(j - 1) : \A n \in DOMAIN log[j].factory.definitions :
        SameSchemaName(i, j, n) =>
            LET B == log[j].factory
                old == log[j].before.definitions
                new == After(j).definitions
            IN  /\ n \in DOMAIN new
                /\ new[n] = B.definitions[n]
                /\ DOMAIN new = (DOMAIN old) \cup (DOMAIN B.definitions)
                /\ \A x \in (DOMAIN old) \ (DOMAIN B.definitions) : new[x] = old[x]

\* The second of two contributors declaring Pet with different bodies has
\* just been mounted into a Document that holds another definition too.
C4_Witness ==
    \E i, j \in Calls :
        /\ SameSchemaName(i, j, "Pet")
        /\ j = Len(log)
        /\ log[j].before.definitions["Pet"] = log[i].factory.definitions["Pet"]
        /\ spec.definitions["Pet"] = log[j].factory.definitions["Pet"]
        /\ (DOMAIN spec.definitions) \ {"Pet"} # {}

(***************************************************************************)
(* C5                                                                      *)
(***************************************************************************)
\* Contributor i was mounted before contributor j, and both declare security
\* scheme name n with different schemes.
SameSchemeName(i, j, n) ==
    /\ i \in Calls /\ j \in Calls /\ i < j
    /\ IsService(i) /\ IsService(j)
    /\ n \in (DOMAIN log[i].factory.security_definitions)
                \cap (DOMAIN log[j].factory.security_definitions)
    /\ log[i].factory.security_definitions[n] # log[j].factory.security_definitions[n]

\* C5: every mount merges the contributor's security definitions: the names
\* stored afterwards are those stored before plus the contributor's, a name
\* the contributor declares holds the contributor's scheme (the later
\* registration wins), and a name it does not declare holds what it held.
C5_SecurityOverwrite ==
    \A j \in Calls : IsService(j) =>
        LET B == log[j].factory
            old == log[j].before.security_definitions
            new == After(j).security_definitions
        IN  /\ DOMAIN new = (DOMAIN old) \cup (DOMAIN B.security_definitions)
            /\ \A n \in DOMAIN B.security_definitions : new[n] = B.security_definitions[n]
            /\ \A x \in (DOMAIN old) \ (DOMAIN B.security_definitions) : new[x] = old[x]

\* The second of two contributors declaring api_key with different schemes
\* has just been mounted into a Document that holds another scheme too.
C5_Witness ==
    \E i, j \in Calls :
        /\ SameSchemeName(i, j, "api_key")
        /\ j = Len(log)
        /\ log[j].before.security_definitions["api_key"] = log[i].factory.security_definitions["api_key"]
        /\ spec.security_definitions["api_key"] = log[j].factory.security_definitions["api_key"]
        /\ (DOMAIN spec.security_definitions) \ {"api_key"} # {}

(***************************************************************************)
(* C6                                                                      *)
(***************************************************************************)
\* A key of the form base ++ rest becomes rest; any other key is unchanged.
StripPrefix(k, base) ==
    IF StartsWith(k, base) THEN SubSeq(k, Len(base) + 1, Len(k)) ELSE k

\* C6 as stated: trim_base_path rewrites every path key: a key of the form
\* basePath ++ rest becomes rest, a key that does not start with basePath is
\* left unchanged, and an absent basePath changes nothing.
C6_AsStated ==
    \A i \in Calls : IsTrim(i) =>
        LET base == UnwrapOrDefault(log[i].before.base_path)
        IN  DOMAIN After(i).paths = {StripPrefix(k, base) : k \in DOMAIN log[i].before.paths}

(***************************************************************************)
(* C7                                                                      *)
(***************************************************************************)
\* The keys a path may appear under once the base path prefix is stripped:
\* the path itself when it does not start with the prefix, and otherwise
\* what is left after removing the prefix once or more.
RECURSIVE StrippedForms(_, _)
StrippedForms(q, base) ==
    IF base = <<>> \/ ~StartsWith(q, base) THEN {q}
    ELSE LET rest == SubSeq(q, Len(base) + 1, Len(q))
         IN  {rest} \cup (IF StartsWith(rest, base) THEN StrippedForms(rest, base) ELSE {})

\* There is a trim_base_path call, and t is the last one.
LastTrim(t) == t \in Calls /\ IsTrim(t) /\ NoTrimAfter(t)

\* C7: in any sequence of operations, before and after build(), a
\* contributor mounted after the last trim_base_path call is in the Document
\* under its path verbatim, with its methods, and every path mounted before
\* that call is in the Document with the base path prefix stripped.
C7_TrimOneShot ==
    \A t \in Calls : LastTrim(t) =>
        LET base == UnwrapOrDefault(spec.base_path)
        IN  /\ \A j \in Calls : (j > t /\ IsService(j)) =>
                   /\ log[j].factory.path \in DOMAIN spec.paths
                   /\ DOMAIN log[j].factory.operations
                          \subseteq DOMAIN spec.paths[log[j].factory.path].methods
            /\ \A j \in Calls : (j < t /\ IsService(j)) =>
                   StrippedForms(log[j].factory.path, base) \cap DOMAIN spec.paths # {}

\* The application has been built after a mount at a path with the base path
\* prefix, a trim and another mount at a path with the prefix: the later
\* path is in the Document with its prefix, the earlier one without.
C7_Witness ==
    /\ app # None
    /\ spec.base_path = Some(<<"a">>)
    /\ Len(log) = 3
    /\ IsService(1) /\ IsTrim(2) /\ IsService(3)
    /\ log[1].factory.path = <<"a", "u">>
    /\ log[3].factory.path = <<"a", "a", "u">>
    /\ DOMAIN spec.paths = {<<"u">>, <<"a", "a", "u">>}

(***************************************************************************)
(* C8                                                                      *)
(***************************************************************************)
\* C8: the value passed to the callback of with_raw_json_spec (and of
\* with_raw_json_spec_v3) is the serialization of the Document as it was at
\* that call, whatever has been mounted since: it has the path, the methods
\* and the schema names of every contributor mounted before the call and not
\* rewritten by a later trim_base_path before it.
C8_RawSnapshot ==
    \A x \in 1..Len(passed) :
        LET c == passed[x].call
            doc == log[c].before
            v == passed[x].value
        IN  /\ c \in Calls
            /\ log[c].op \in {"with_raw_json_spec", "with_raw_json_spec_v3"}
            /\ log[c].op = "with_raw_json_spec" => v = ToJson(doc)
            /\ log[c].op = "with_raw_json_spec_v3" => v = V3Json(OpenApiV2ToV3(doc))
            /\ \A j \in 1..(c - 1) :
                   (IsService(j) /\ \A t \in (j + 1)..(c - 1) : ~IsTrim(t)) =>
                       /\ log[j].factory.path \in DOMAIN v.paths
                       /\ {MethodJson(m) : m \in DOMAIN log[j].factory.operations}
                              \subseteq DOMAIN v.paths[log[j].factory.path].operations
                       /\ log[c].op = "with_raw_json_spec" =>
                              DOMAIN log[j].factory.definitions \subseteq DOMAIN v.definitions

\* A contributor was mounted, with_raw_json_spec was called, and another
\* contributor was mounted at a new path: the Document has moved on from the
\* value that was passed.
C8_Witness ==
    /\ Len(log) = 3
    /\ IsService(1) /\ log[2].op = "with_raw_json_spec" /\ IsService(3)
    /\ Len(passed) = 1
    /\ log[1].factory.path \in DOMAIN passed[1].value.paths
    /\ log[3].factory.path \notin DOMAIN passed[1].value.paths
    /\ log[3].factory.path \in DOMAIN spec.paths
    /\ passed[1].value # ToJson(spec)

(***************************************************************************)
(* C9                                                                      *)
(***************************************************************************)
\* C9: every response of the endpoint registered by with_json_spec_at is the
\* serialization of the Document as it is when the request is served: it has
\* the path, the methods and the schema names of every contributor mounted
\* and not rewritten by a later trim_base_path, also of those mounted after
\* with_json_spec_at was called.
C9_LiveJsonEndpoint ==
    (served # None /\ served[1].handler = "SpecHandler") =>
        LET body == served[1].body
        IN  /\ body = ToJson(spec)
            /\ \A j \in Calls : (IsService(j) /\ NoTrimAfter(j)) =>
                   /\ log[j].factory.path \in DOMAIN body.paths
                   /\ {MethodJson(m) : m \in DOMAIN log[j].factory.operations}
                          \subseteq DOMAIN body.paths[log[j].factory.path].operations
                   /\ DOMAIN log[j].factory.definitions \subseteq DOMAIN body.definitions

\* with_json_spec_at was the first call, two contributors were mounted after
\* it, and the endpoint has served a response with both.
C9_Witness ==
    /\ served # None /\ served[1].handler = "SpecHandler"
    /\ Len(log) = 3
    /\ log[1].op = "with_json_spec_at" /\ IsService(2) /\ IsService(3)
    /\ log[2].factory.path # log[3].factory.path
    /\ {log[2].factory.path, log[3].factory.path} \subseteq DOMAIN served[1].body.paths
    /\ served[1].body # ToJson(log[1].before)

(***************************************************************************)
(* C10                                                                     *)
(***************************************************************************)
\* The application has been built with a v3 endpoint registered.
BuiltWithV3 == app # None /\ \E svc \in app[1] : svc.kind = "SpecHandlerV3"

\* C10: once build() has returned with a v3 endpoint registered, the cached
\* translated document is the translation of the final Document, with the
\* path of every contributor mounted after the last trim_base_path, and every
\* response of the v3 endpoint is its serialization.
C10_V3CacheAfterBuild ==
    BuiltWithV3 =>
        /\ spec_v3 = Some(OpenApiV2ToV3(spec))
        /\ \A j \in Calls : (IsService(j) /\ NoTrimAfter(j)) =>
               log[j].factory.path \in DOMAIN spec_v3[1].paths
        /\ \A t \in Calls : (IsTrim(t) /\ t = Len(log)) =>
               DOMAIN spec_v3[1].paths = DOMAIN TrimBasePath(log[t].before).paths
        /\ (served # None /\ served[1].handler = "SpecHandlerV3") =>
               served[1].body = V3Json(OpenApiV2ToV3(spec))

\* with_json_spec_v3_at was the first call, a contributor was mounted and
\* the base path trimmed after it, the application was built and the v3
\* endpoint has served the translated document with the rewritten path.
C10_Witness ==
    /\ BuiltWithV3
    /\ served # None /\ served[1].handler = "SpecHandlerV3"
    /\ Len(log) = 3
    /\ log[1].op = "with_json_spec_v3_at" /\ IsService(2) /\ IsTrim(3)
    /\ log[2].factory.path = <<"a", "u">>
    /\ spec.base_path = Some(<<"a">>)
    /\ DOMAIN served[1].body.paths = {<<"u">>}

(***************************************************************************)
(* C11                                                                     *)
(***************************************************************************)
\* C11 as stated: the Translator never holds both locks at once: no thread
\* holds the read lock on the Document while it holds, or waits for, the
\* write lock on the v3 cache.
C11_AsStated ==
    \A t \in Threads :
        ~(/\ t \in spec_lock.readers
          /\ (t \in v3_lock.writer \/ pc[t] = "v3_write"))

\* The Document after the writes of a history, made one after the other,
\* each as a whole.
RECURSIVE Replay(_, _)
Replay(api, writes) ==
    IF writes = <<>> THEN api
    ELSE Replay(IF Head(writes).op = "service"
                THEN update_from_mountable(api, Head(writes).factory)
                ELSE TrimBasePath(api),
                Tail(writes))

\* The Documents between the writes that have taken the lock so far.
WholeDocuments == {Replay(supplied, SubSeq(order, 1, k)) : k \in 0..Len(order)}

(***************************************************************************)
(* C12                                                                     *)
(***************************************************************************)
\* C12: a mount is atomic for every reader: the Document a SpecHandler read,
\* and the Document the Translator read to fill the cache, is the Document
\* as it was between two writes, with every mount before it merged whole
\* (definitions, security schemes, operations and normalization) and
\* nothing of a later one.
C12_MountAtomic ==
    /\ \A h \in Handlers :
           (seen[h] # None /\ seen[h][1].handler = "SpecHandler")
               => seen[h][1].document \in WholeDocuments
    /\ spec_v3[1] \in {DefaultOpenAPI} \cup {OpenApiV2ToV3(d) : d \in WholeDocuments}

\* A handler has read the Document between two mounts, and the second mount
\* is half done: what it has merged so far is no Document between writes.
C12_Witness ==
    \E h \in Handlers : \E t \in Writers :
        /\ Len(order) = 2
        /\ order[1].op = "service" /\ order[2].op = "service"
        /\ pc[t] = "update_operations"
        /\ spec \notin WholeDocuments
        /\ seen[h] # None
        /\ seen[h][1].handler = "SpecHandler"
        /\ seen[h][1].document = Replay(supplied, SubSeq(order, 1, 1))
        /\ seen[h][1].document # supplied

(***************************************************************************)
(* C13                                                                     *)
(***************************************************************************)
\* C13: writes of the Document are serialized: at most one mount or
\* trim_base_path holds the Document lock as writer and no reader holds it
\* with a writer; whenever no write is under way the Document is the one
\* the writes give when made one after the other, each once, in the order
\* they took the lock; and of contributors racing for a path and method the
\* operation stored is that of the one that took the lock last.
C13_WritesSerialized ==
    /\ Cardinality(spec_lock.writer) <= 1
    /\ spec_lock.writer # {} => spec_lock.readers = {}
    /\ spec_lock.writer = {} => spec = Replay(supplied, order)
    /\ (spec_lock.writer = {} /\ order # <<>> /\ order[Len(order)].op = "service")
           => LET last == order[Len(order)].factory
              IN  /\ last.path \in DOMAIN spec.paths
                  /\ \A m \in DOMAIN last.operations :
                         StoredAs(spec.paths[last.path], m, last.operations[m])

\* Two threads have mounted contributors with different operations for the
\* same path and method, and both mounts are over.
C13_Witness ==
    /\ Len(order) = 2
    /\ spec_lock.writer = {}
    /\ order[1].op = "service" /\ order[2].op = "service"
    /\ order[1].thread # order[2].thread
    /\ order[1].factory.path = order[2].factory.path
    /\ \E m \in DOMAIN order[1].factory.operations :
           /\ m \in DOMAIN order[2].factory.operations
           /\ order[1].factory.operations[m] # order[2].factory.operations[m]

(***************************************************************************)
(* C14                                                                     *)
(***************************************************************************)
ProxyOps ==
    {"data", "data_factory", "app_data", "default_service", "external_resource",
     "wrap", "wrap_fn"}

\* The step is a call of one of the proxies.
ProxyStep == Len(log') = Len(log) + 1 /\ log'[Len(log')].op \in ProxyOps

\* The handlers registered so far hold the Arcs the wrapper holds.
SharedArcs ==
    /\ arc.handlers \subseteq {arc.spec}
    /\ arc.handlers_v3 \subseteq (IF arc.v3 = None THEN {} ELSE {arc.v3[1]})

\* C14: data, data_factory, app_data, default_service, external_resource,
\* wrap and wrap_fn leave the Document and the v3 cache, and which Arcs hold
\* them, as they were; the wrapper wrap and wrap_fn return holds the same
\* Arcs, so every handler registered before or after reads the Document the
\* later mounts are merged into.
C14_ProxiesFrame ==
    [][/\ ProxyStep => /\ spec' = spec
                       /\ spec_v3' = spec_v3
                       /\ arc'.spec = arc.spec
                       /\ arc'.v3 = arc.v3
       /\ SharedArcs']_vars

\* A handler was registered, the wrapper was then wrapped, and a contributor
\* mounted on the wrapper returned has changed the Document.
C14_Witness ==
    /\ Len(log) = 3
    /\ log[1].op = "with_json_spec_at"
    /\ log[2].op \in {"wrap", "wrap_fn"}
    /\ log[3].op \in {"service", "configure", "route"}
    /\ spec # log[3].before
    /\ arc.handlers = {arc.spec}

(***************************************************************************)
(* C19                                                                     *)
(***************************************************************************)
\* C19: as long as build() has not been called the wrapper's inner handle
\* is Some, whatever builder operations were called on it, so build() finds
\* the application and does not abort with "missing app?".
C19_InnerIsSome == app = None => inner # None

\* build() has returned the application after a chain with a configure, a
\* proxy that makes a new wrapper and a trim_base_path.
C19_Witness ==
    /\ app # None
    /\ \E i \in Calls : log[i].op = "configure"
    /\ \E i \in Calls : log[i].op \in {"wrap", "wrap_fn"}
    /\ \E i \in Calls : log[i].op = "trim_base_path"

(***************************************************************************)
(* C15                                                                     *)
(***************************************************************************)
MountOps == {"service", "configure", "route"}

\* No contributor was mounted by the calls before the c-th.
NoMountBefore(c) == \A i \in 1..(c - 1) : log[i].op \notin MountOps

\* Neither a mount nor a trim_base_path is among the calls before the c-th.
NoWriteBefore(c) ==
    \A i \in 1..(c - 1) : log[i].op \notin MountOps \cup {"trim_base_path"}

\* What a snapshot of the Document the wrapper was created with looks like
\* to the callback of the call made.
SnapshotOfSupplied(op) ==
    IF op = "with_raw_json_spec" THEN ToJson(supplied)
    ELSE V3Json(OpenApiV2ToV3(supplied))

\* C15 as stated: a snapshot or a build() before any mount gives exactly the
\* Document the wrapper was created with.
C15_AsStated ==
    /\ \A x \in 1..Len(passed) :
           NoMountBefore(passed[x].call)
               => passed[x].value = SnapshotOfSupplied(log[passed[x].call].op)
    /\ (app # None /\ NoMountBefore(Len(log) + 1)) => spec = supplied

\* C15 amended: a snapshot or a build() before any mount and any
\* trim_base_path is not an error and gives the Document the wrapper was
\* created with: the raw snapshots and the response of the JSON endpoint
\* are its serialization, build() returns the application and leaves the
\* Document as it was, and for a wrapper made by wrap_api the paths,
\* definitions and security definitions are empty and there is no base path.
C15_EmptySnapshot ==
    /\ \A x \in 1..Len(passed) :
           NoWriteBefore(passed[x].call)
               => passed[x].value = SnapshotOfSupplied(log[passed[x].call].op)
    /\ NoWriteBefore(Len(log) + 1) =>
           /\ spec = supplied
           /\ app # None => spec_v3 \in {None, Some(OpenApiV2ToV3(supplied))}
           /\ (served # None /\ served[1].handler = "SpecHandler")
                  => served[1].body = ToJson(supplied)
           /\ supplied = DefaultApi =>
                  /\ spec.paths = EmptyMap
                  /\ spec.definitions = EmptyMap
                  /\ spec.security_definitions = EmptyMap
                  /\ spec.base_path = None

\* A wrapper made from a supplied Document that is not the default was
\* built with nothing mounted, after both raw snapshots were taken.
C15_Witness ==
    /\ app # None
    /\ NoWriteBefore(Len(log) + 1)
    /\ supplied # DefaultApi
    /\ \E x \in 1..Len(passed) : log[passed[x].call].op = "with_raw_json_spec"
    /\ \E x \in 1..Len(passed) : log[passed[x].call].op = "with_raw_json_spec_v3"

(***************************************************************************)
(* C16                                                                     *)
(***************************************************************************)
IsMount(i) == log[i].op \in MountOps

\* C16: with normalization enabled every PathItem of the Document is
\* normalized after every mount, those the mount did not add to included;
\* with normalization disabled a mount leaves every PathItem but the one at
\* the contributor's path as it was, and adds no key but that path.
C16_NormalizeEveryItem ==
    \A j \in Calls : IsMount(j) =>
        LET before == log[j].before
            after == After(j)
            path == log[j].factory.path
        IN  IF normalize
            THEN \A k \in DOMAIN after.paths : Normalize(after.paths[k]) = after.paths[k]
            ELSE /\ DOMAIN after.paths = (DOMAIN before.paths) \cup {path}
                 /\ \A k \in (DOMAIN before.paths) \ {path} :
                        after.paths[k] = before.paths[k]

\* With normalization enabled a contributor was mounted at one path while
\* the PathItem at another path was not normalized.
C16_Witness ==
    /\ normalize
    /\ \E j \in Calls :
           /\ IsMount(j)
           /\ \E k \in (DOMAIN log[j].before.paths) \ {log[j].factory.path} :
                  Normalize(log[j].before.paths[k]) # log[j].before.paths[k]

(***************************************************************************)
(* C17                                                                     *)
(***************************************************************************)
\* How many of the calls made on a contributor were calls of accessor a.
TimesCalled(calls, a) == Cardinality({i \in 1..Len(calls) : calls[i] = a})

\* The last mount of the chain.
LastMount == CHOOSE j \in Calls : IsMount(j) /\ \A i \in Calls : i > j => ~IsMount(i)

\* C17: a mount calls operations(), definitions() and security_definitions()
\* of its contributor once each, so that of a contributor whose accessors
\* are one-shot every operation is in the Document after the mount, under
\* the contributor's path and its method.
C17_AccessorsOnce ==
    mounted # None =>
        LET f == log[LastMount].factory
            doc == After(LastMount)
        IN  /\ \A a \in Accessors : TimesCalled(mounted[1].calls, a) = 1
            /\ f.path \in DOMAIN doc.paths
            /\ \A m \in DOMAIN f.operations :
                   StoredAs(doc.paths[f.path], m, f.operations[m])

\* A contributor that held an operation was mounted and, its accessors being
\* one-shot, holds none any more.
C17_Witness ==
    /\ mounted # None
    /\ mounted[1].state.operations = EmptyMap
    /\ log[LastMount].factory.operations # EmptyMap
    /\ log[LastMount].factory.path \in DOMAIN After(LastMount).paths

(***************************************************************************)
(* C18                                                                     *)
(***************************************************************************)
\* C18 as stated: trim_base_path loses no operation: every operation the
\* Document had under a key and a method before the call it has, after the
\* call, under the rewritten key and the same method, and the Document has
\* as many path entries as before, also when two keys are rewritten to the
\* same string.
C18_AsStated ==
    \A t \in Calls : IsTrim(t) =>
        LET before == log[t].before
            after == After(t)
            base_path == UnwrapOrDefault(before.base_path)
        IN  /\ \A k \in DOMAIN before.paths : \A m \in DOMAIN before.paths[k].methods :
                   LET key == TrimStartMatches(k, base_path)
                   IN  /\ key \in DOMAIN after.paths
                       /\ m \in DOMAIN after.paths[key].methods
                       /\ after.paths[key].methods[m] = before.paths[k].methods[m]
            /\ Cardinality(DOMAIN after.paths) = Cardinality(DOMAIN before.paths)

(***************************************************************************)
(* C20                                                                     *)
(***************************************************************************)
\* The keys of paths that are rewritten to key.
RewrittenTo(paths, base_path, key) ==
    {k \in DOMAIN paths : TrimStartMatches(k, base_path) = key}

\* C20: trim_base_path is idempotent and touches only path keys: a second
\* call right after a first leaves the Document as the first left it, and
\* a call leaves definitions, security definitions and the base path as
\* they were and puts every PathItem, its content unchanged, under the
\* rewritten key (when several keys are rewritten to one, the PathItem of
\* one of them).
C20_TrimIdempotent ==
    \A t \in Calls : IsTrim(t) =>
        LET before == log[t].before
            after == After(t)
            base_path == UnwrapOrDefault(before.base_path)
        IN  /\ after.definitions = before.definitions
            /\ after.security_definitions = before.security_definitions
            /\ after.base_path = before.base_path
            /\ DOMAIN after.paths =
                   {TrimStartMatches(k, base_path) : k \in DOMAIN before.paths}
            /\ \A key \in DOMAIN after.paths :
                   \E k \in RewrittenTo(before.paths, base_path, key) :
                       after.paths[key] = before.paths[k]
            /\ TrimBasePath(after) = after
            /\ (t + 1 \in Calls /\ IsTrim(t + 1)) => After(t + 1) = after

\* trim_base_path was called twice in a row on a Document with a key that
\* starts with the base path twice over, and the first call rewrote it.
C20_Witness ==
    \E t \in Calls :
        /\ t + 1 \in Calls
        /\ IsTrim(t) /\ IsTrim(t + 1)
        /\ log[t].before.base_path # None
        /\ \E k \in DOMAIN log[t].before.paths :
               LET base_path == log[t].before.base_path[1]
               IN  /\ base_path # <<>>
                   /\ StartsWith(k, base_path \o base_path)
        /\ After(t) # log[t].before

====
